---- MODULE Spec2Model ----
(***************************************************************************)
(* Room material cost estimator: the parametric cost/area engine, the      *)
(* material-layer list, the label layout and the camera-fit controller.    *)
(*                                                                         *)
(* JavaScript numbers are modelled as exact rationals <<n, d>> in lowest   *)
(* terms with d > 0; <<0, 0>> stands for NaN.  Floating-point rounding and *)
(* overflow to Infinity are outside the model.  The camera vectors are     *)
(* integer triples in thousandths of a scene unit, and the square root is  *)
(* the integer square root on that scale.                                  *)
(***************************************************************************)
EXTENDS Integers, Sequences, FiniteSets, TLC

\* ------------------------------------------------------------------------
\* Bounds of the exploration
\* ------------------------------------------------------------------------
MaxOps == 2
MaxLayers == 4
MaxTicks == 2
MaxGlide == 120
MaxClock == 1
ClockStart == 100

\* ------------------------------------------------------------------------
\* Numbers
\* ------------------------------------------------------------------------
Abs(x) == IF x < 0 THEN -x ELSE x

RECURSIVE GCD(_, _)
GCD(a, b) == IF b = 0 THEN a ELSE GCD(b, a % b)

\* n/d with the common factor g taken out and the sign in the numerator
Reduce(n, d, g) ==
    IF d < 0 THEN <<(-n) \div g, (-d) \div g>> ELSE <<n \div g, d \div g>>

Q(n, d) == Reduce(n, d, GCD(Abs(n), Abs(d)))

NaN == <<0, 0>>
Zero == <<0, 1>>
Num(i) == <<i, 1>>

Add(a, b) == Q(a[1] * b[2] + b[1] * a[2], a[2] * b[2])
Sub(a, b) == Q(a[1] * b[2] - b[1] * a[2], a[2] * b[2])
Mul(a, b) == Q(a[1] * b[1], a[2] * b[2])
Div(a, b) == Q(a[1] * b[2], a[2] * b[1])
Lt(a, b) == a[1] * b[2] < b[1] * a[2]
Gt(a, b) == Lt(b, a)
Geq(a, b) == ~Lt(a, b)
IsNaN(a) == a[2] = 0

\* Math.max for two and three numbers
Max2(a, b) == IF Lt(a, b) THEN b ELSE a
Min2(a, b) == IF Lt(b, a) THEN b ELSE a
Max3(a, b, c) == Max2(Max2(a, b), c)

\* x || 0 : NaN and 0 are falsy
OrZero(x) == IF IsNaN(x) \/ x = Zero THEN Zero ELSE x

\* Round |x| * k half up, keep the sign (Number.prototype.toFixed and the
\* halfExpand rounding of Intl.NumberFormat); the result is x rounded to 1/k.
Sign(i) == IF i < 0 THEN -1 ELSE 1

RoundInt(x, k) == Sign(x[1]) * ((2 * Abs(x[1]) * k + x[2]) \div (2 * x[2]))

RoundTo(x, k) == Q(RoundInt(x, k), k)

ToFixed2(x) == RoundTo(x, 100)
FormatCurrency(x) == RoundTo(x, 100)
FormatCurrency0(x) == RoundTo(x, 1)

\* Truncation toward zero
Trunc(x) == IF x[1] < 0 THEN -(Abs(x[1]) \div x[2]) ELSE x[1] \div x[2]

\* ------------------------------------------------------------------------
\* Raw values of the <input type="number"> fields.  The value of such a
\* field is "" unless it holds a valid floating-point number.
\* ------------------------------------------------------------------------
ParseFloat(s) ==
    CASE s = "" -> NaN
      [] s = "-1" -> Q(-1, 1)
      [] s = "0" -> Zero
      [] s = "0.3" -> Q(3, 10)
      [] s = "0.5" -> Q(1, 2)
      [] s = "2" -> Q(2, 1)
      [] s = "2.5" -> Q(5, 2)
      [] s = "3" -> Q(3, 1)
      [] s = "4" -> Q(4, 1)
      [] s = "5" -> Q(5, 1)
      [] s = "6" -> Q(6, 1)
      [] s = "7" -> Q(7, 1)
      [] s = "10" -> Q(10, 1)
      [] s = "50" -> Q(50, 1)
      [] s = "100" -> Q(100, 1)

\* parseInt of a plain decimal numeral: the integer part, NaN for ""
ParseInt(s) == IF IsNaN(ParseFloat(s)) THEN NaN ELSE Num(Trunc(ParseFloat(s)))

DimRaw == {"", "-1", "2"}
PriceRaw == {"", "-1", "2"}
PkgPriceRaw == {"", "-1", "6"}
PkgAreaRaw == {"", "-1", "5"}
SubRaw == {"", "-1", "100"}
WallRaw == {"", "-1", "2.5", "7"}
NameRaw == {"", "Tile"}

\* ------------------------------------------------------------------------
\* State
\* ------------------------------------------------------------------------
VARIABLES
    inputs,                 \* raw values of the three dimension fields
    params,                 \* length, width, height, materials
    calc,                   \* areas and grandTotal of the last updateCalculations
    breakdown,              \* children of the cost-breakdown container
    outputs,                \* text of the statistics elements
    room,                   \* scale and y position of the room mesh
    gridSize,               \* extent of the grid helper
    labels,                 \* children of labelsGroup
    font,                   \* TRUE once the font is loaded
    camera,                 \* camera.position
    targetCameraPosition,   \* pending camera target, Null when none
    now,                    \* last reading of Date.now()
    lastOp,                 \* the event handled last and its input
    lastRan,                \* the stages the last handler executed
    nOps,                   \* number of input events handled
    nTicks                  \* number of animation frames that moved the camera

vars == <<inputs, params, calc, breakdown, outputs, room, gridSize, labels, font,
          camera, targetCameraPosition, now, lastOp, lastRan, nOps, nTicks>>

Null == <<>>

\* ------------------------------------------------------------------------
\* updateCalculations
\* ------------------------------------------------------------------------
\* The record of areas: totalWallArea and floorArea as computed, the
\* others derived from them
AreasOf(totalWallArea, floorArea) ==
    [totalWallArea |-> totalWallArea,
     floorArea |-> floorArea,
     ceilingArea |-> floorArea,
     avgWallArea |-> Div(totalWallArea, Num(4)),
     totalGeoArea |-> Add(Add(totalWallArea, floorArea), floorArea)]

\* Variant of DerivedAreas whose wall area counts each pair of walls once
DerivedAreas_HalfWalls(p) ==
    AreasOf(Add(Mul(p.length, p.height), Mul(p.width, p.height)),
            Mul(p.length, p.width))

\* totalWallArea, floorArea, ceilingArea, avgWallArea and totalGeoArea
DerivedAreas(p) ==
    AreasOf(Add(Mul(Num(2), Mul(p.length, p.height)),
                Mul(Num(2), Mul(p.width, p.height))),
            Mul(p.length, p.width))

\* if (matArea < 0) matArea = 0
ClampAtZero(x) == IF Lt(x, Zero) THEN Zero ELSE x

\* The positive areas of one material: walls, floor, ceiling
CoveredArea(mat, ar) ==
    Add(Add(Mul(Num(mat.wallCount), ar.avgWallArea),
            IF mat.floor THEN ar.floorArea ELSE Zero),
        IF mat.ceiling THEN ar.ceilingArea ELSE Zero)

\* Variant of MatArea without the clamp at zero
MatArea_NoClamp(mat, ar) == Sub(CoveredArea(mat, ar), OrZero(mat.subtractArea))

\* Area covered by one material: positive areas, minus the exclusion,
\* never below zero.
MatArea(mat, ar) == ClampAtZero(Sub(CoveredArea(mat, ar), OrZero(mat.subtractArea)))

\* The subtitle of a breakdown item: what the layer includes
SubString(mat) ==
    <<IF mat.wallCount > 0 THEN mat.wallCount ELSE 0,
      mat.floor,
      mat.ceiling,
      IF Gt(OrZero(mat.subtractArea), Zero) THEN OrZero(mat.subtractArea) ELSE Zero>>

\* The breakdown item of a material with area matArea and cost materialCost
Item(mat, matArea, materialCost) ==
    [layerId |-> mat.id,
     name |-> IF mat.name = "" THEN "Layer" ELSE mat.name,
     sub |-> SubString(mat),
     area |-> matArea,
     cost |-> materialCost,
     formatPrice |-> FormatCurrency(materialCost)]

\* materialCost = matArea * mat.price
PricedItem(mat, matArea) == Item(mat, matArea, Mul(matArea, mat.price))

\* Variant of BreakdownItem that prices the area before the exclusion
BreakdownItem_NoExclusion(mat, ar) == PricedItem(mat, ClampAtZero(CoveredArea(mat, ar)))

\* The body of the forEach for one material
BreakdownItem(mat, ar) == PricedItem(mat, MatArea(mat, ar))

\* grandTotal += materialCost; appendChild(item)
Accumulate(acc, item) ==
    [grandTotal |-> Add(acc.grandTotal, item.cost), items |-> Append(acc.items, item)]

\* Variant of Accumulate that subtracts the cost from the total
Accumulate_Subtract(acc, item) ==
    [grandTotal |-> Sub(acc.grandTotal, item.cost), items |-> Append(acc.items, item)]

\* Variant of ForEachMaterial that subtracts each cost from the total
RECURSIVE ForEachMaterial_Subtract(_, _, _, _)
ForEachMaterial_Subtract(mats, ar, i, acc) ==
    IF i > Len(mats) THEN acc
    ELSE ForEachMaterial_Subtract(mats, ar, i + 1,
                                  Accumulate_Subtract(acc, BreakdownItem(mats[i], ar)))

\* params.materials.forEach: the items appended and the costs accumulated in
\* list order, starting from index i with accumulator acc.
RECURSIVE ForEachMaterial(_, _, _, _)
ForEachMaterial(mats, ar, i, acc) ==
    IF i > Len(mats) THEN acc
    ELSE ForEachMaterial(mats, ar, i + 1, Accumulate(acc, BreakdownItem(mats[i], ar)))

\* What updateCalculations leaves behind, from the areas ar and the result r
\* of the loop
CalculationResult(ar, r) ==
    [calc |-> [totalWallArea |-> ar.totalWallArea,
               floorArea |-> ar.floorArea,
               ceilingArea |-> ar.ceilingArea,
               avgWallArea |-> ar.avgWallArea,
               grandTotal |-> r.grandTotal],
     breakdown |-> r.items,
     outputs |-> [wall |-> ToFixed2(ar.totalWallArea),
                  floor |-> ToFixed2(ar.floorArea),
                  ceiling |-> ToFixed2(ar.ceilingArea),
                  total |-> ToFixed2(ar.totalGeoArea),
                  cost |-> FormatCurrency(r.grandTotal)]]

CalculationsWith(p, ar) ==
    CalculationResult(ar, ForEachMaterial(p.materials, ar, 1,
                                          [grandTotal |-> Zero, items |-> <<>>]))

UpdateCalculations(p) == CalculationsWith(p, DerivedAreas(p))

\* ------------------------------------------------------------------------
\* updateCalculations of main.js, the engine without exclusions
\* ------------------------------------------------------------------------
\* The body of the forEach of main.js for one material: no exclusion is
\* subtracted and the area is not clamped
MainJsBreakdownItem(mat, ar) == PricedItem(mat, CoveredArea(mat, ar))

RECURSIVE MainJsForEachMaterial(_, _, _, _)
MainJsForEachMaterial(mats, ar, i, acc) ==
    IF i > Len(mats) THEN acc
    ELSE MainJsForEachMaterial(mats, ar, i + 1,
                               Accumulate(acc, MainJsBreakdownItem(mats[i], ar)))

MainJsCalculationsWith(p, ar) ==
    CalculationResult(ar, MainJsForEachMaterial(p.materials, ar, 1,
                                                [grandTotal |-> Zero, items |-> <<>>]))

MainJsUpdateCalculations(p) == MainJsCalculationsWith(p, DerivedAreas(p))

\* ------------------------------------------------------------------------
\* Camera vectors (thousandths of a scene unit)
\* ------------------------------------------------------------------------
RECURSIVE SqrtSearch(_, _, _)
SqrtSearch(n, lo, hi) ==
    IF lo >= hi THEN lo
    ELSE LET mid == (lo + hi + 1) \div 2
         IN  IF mid * mid <= n THEN SqrtSearch(n, mid, hi)
             ELSE SqrtSearch(n, lo, mid - 1)

ISqrt(n) == SqrtSearch(n, 0, 46340)

\* Vector3.distanceTo
DistanceTo(a, b) ==
    ISqrt((a[1] - b[1]) * (a[1] - b[1]) + (a[2] - b[2]) * (a[2] - b[2])
          + (a[3] - b[3]) * (a[3] - b[3]))

Origin == <<0, 0, 0>>

\* A scene length as a rational number of scene units
Units(m) == Q(m, 1000)
\* A rational number of scene units in thousandths
Milli(r) == RoundInt(r, 1000)

\* v / den * f, component by component
ScaleBy(v, den, f) == [i \in 1..3 |-> Milli(Mul(Q(v[i], den), f))]

\* length() || 1
LengthOrOne(len) == IF len = 0 THEN 1 ELSE len

\* direction = position.clone().normalize(); direction.multiplyScalar(f)
NormalizeTimes(v, f) == ScaleBy(v, LengthOrOne(DistanceTo(v, Origin)), f)

\* Variant of Lerp that leaves the camera where it is
Lerp_Stay(v, t) == v

\* Variant of Lerp that jumps onto the target
Lerp_Jump(v, t) == t

\* Vector3.lerp(target, 0.05)
Lerp(v, t) == [i \in 1..3 |-> v[i] + RoundInt(Q((t[i] - v[i]) * 5, 100), 1)]

\* if (target.y < fitDistance * 0.3) target.y = fitDistance * 0.3
RaiseY(t, floorY) == IF Lt(Units(t[2]), floorY) THEN <<t[1], Milli(floorY), t[3]>> ELSE t

\* Variant of OutOfBand that finds every distance out of band
OutOfBand_Always(currentDist, fitDistance) == TRUE

\* The camera is too close to or too far from the room
OutOfBand(currentDist, fitDistance) ==
    \/ Lt(currentDist, Mul(fitDistance, Q(2, 5)))
    \/ Gt(currentDist, Mul(fitDistance, Q(5, 2)))

\* Variant of FitCamera that keeps a target that is already pending
FitCamera_KeepPending(fitDistance, cam, tgt) ==
    IF tgt # Null THEN tgt
    ELSE IF OutOfBand(Units(DistanceTo(cam, Origin)), fitDistance)
    THEN RaiseY(NormalizeTimes(cam, fitDistance), Mul(fitDistance, Q(3, 10)))
    ELSE tgt

FitCamera(fitDistance, cam, tgt) ==
    IF OutOfBand(Units(DistanceTo(cam, Origin)), fitDistance)
    THEN RaiseY(NormalizeTimes(cam, fitDistance), Mul(fitDistance, Q(3, 10)))
    ELSE tgt

\* The "Auto Camera" block of updateScene: the new pending target
AutoCamera(maxDim, cam, tgt) == FitCamera(Mul(maxDim, Q(3, 2)), cam, tgt)

\* ------------------------------------------------------------------------
\* updateScene
\* ------------------------------------------------------------------------
\* Variant of CapByHeight that never caps
CapByHeight_Never(textSize, cap) == textSize

\* if (textSize > height * 0.15) textSize = height * 0.15
CapByHeight(textSize, cap) == IF Gt(textSize, cap) THEN cap ELSE textSize

\* Variant of TextSize without the cap by the height
TextSize_Uncapped(p) ==
    Max2(Q(15, 100), Mul(Max3(p.length, p.width, p.height), Q(3, 100)))

TextSize(p) ==
    Max2(Q(15, 100),
         CapByHeight(Mul(Max3(p.length, p.width, p.height), Q(3, 100)),
                     Mul(p.height, Q(15, 100))))

Label(kind, value, position, color, size) ==
    [kind |-> kind, value |-> value, position |-> position, color |-> color, size |-> size]

Half(x) == Mul(x, Q(1, 2))
Neg(x) == Sub(Zero, x)

\* The seven createLabel calls, in call order
LabelsWith(length, width, height, grandTotal, textSize, gap) ==
    <<Label("length", length, <<Zero, Zero, Add(Half(width), gap)>>, "white", textSize),
      Label("width", width, <<Add(Half(length), gap), Zero, Zero>>, "white", textSize),
      Label("height", height,
            <<Sub(Half(Neg(length)), gap), Half(height), Half(Neg(width))>>,
            "white", textSize),
      Label("floor", ToFixed2(Mul(length, width)), <<Zero, gap, Zero>>, "yellow", textSize),
      Label("ceiling", ToFixed2(Mul(length, width)), <<Zero, Sub(height, gap), Zero>>,
            "yellow", textSize),
      Label("walls",
            ToFixed2(Add(Mul(Mul(Num(2), length), height), Mul(Mul(Num(2), width), height))),
            <<Zero, Half(height), Add(Half(Neg(width)), gap)>>, "yellow", textSize),
      Label("total", FormatCurrency0(grandTotal),
            <<Zero, Add(height, Mul(textSize, Num(2))), Zero>>, "green",
            Mul(textSize, Q(12, 10)))>>

\* Variant of LabelsSized with the gap of twice the text size
LabelsSized_DoubleGap(p, grandTotal, textSize) ==
    LabelsWith(p.length, p.width, p.height, grandTotal, textSize, Mul(textSize, Num(2)))

LabelsSized(p, grandTotal, textSize) ==
    LabelsWith(p.length, p.width, p.height, grandTotal, textSize, Mul(textSize, Q(12, 10)))

SceneLabels(p, grandTotal) == LabelsSized(p, grandTotal, TextSize(p))

AllStages == {"calc", "geometry", "grid", "clearLabels", "labels", "camera"}
SceneStages == {"calc", "geometry", "grid", "clearLabels"}

\* Variant of SceneWith that adds the new labels to those already there
SceneWith_AppendLabels(p, fnt, cam, tgt, c, maxDim) ==
    [calc |-> c.calc,
     breakdown |-> c.breakdown,
     outputs |-> c.outputs,
     room |-> [scale |-> <<p.length, p.height, p.width>>, y |-> Half(p.height)],
     gridSize |-> Max2(Num(20), Mul(maxDim, Num(2))),
     labels |-> IF fnt THEN labels \o SceneLabels(p, c.calc.grandTotal) ELSE <<>>,
     target |-> IF fnt THEN AutoCamera(maxDim, cam, tgt) ELSE tgt,
     ran |-> IF fnt THEN AllStages ELSE SceneStages]

\* Variant of SceneWith whose createLabel does not wait for the font
SceneWith_LabelsWithoutFont(p, fnt, cam, tgt, c, maxDim) ==
    [calc |-> c.calc,
     breakdown |-> c.breakdown,
     outputs |-> c.outputs,
     room |-> [scale |-> <<p.length, p.height, p.width>>, y |-> Half(p.height)],
     gridSize |-> Max2(Num(20), Mul(maxDim, Num(2))),
     labels |-> SceneLabels(p, c.calc.grandTotal),
     target |-> IF fnt THEN AutoCamera(maxDim, cam, tgt) ELSE tgt,
     ran |-> IF fnt THEN AllStages ELSE SceneStages]

\* Variant of SceneWith that runs the camera block without the font
SceneWith_NoFontGuard(p, fnt, cam, tgt, c, maxDim) ==
    [calc |-> c.calc,
     breakdown |-> c.breakdown,
     outputs |-> c.outputs,
     room |-> [scale |-> <<p.length, p.height, p.width>>, y |-> Half(p.height)],
     gridSize |-> Max2(Num(20), Mul(maxDim, Num(2))),
     labels |-> IF fnt THEN SceneLabels(p, c.calc.grandTotal) ELSE <<>>,
     target |-> AutoCamera(maxDim, cam, tgt),
     ran |-> IF fnt THEN AllStages ELSE SceneStages \cup {"camera"}]

\* updateScene after updateCalculations has returned c and maxDim is known.
\* createLabel adds nothing while the font is missing; updateScene returns
\* before the label and camera blocks in that case.
SceneWith(p, fnt, cam, tgt, c, maxDim) ==
    [calc |-> c.calc,
     breakdown |-> c.breakdown,
     outputs |-> c.outputs,
     room |-> [scale |-> <<p.length, p.height, p.width>>, y |-> Half(p.height)],
     gridSize |-> Max2(Num(20), Mul(maxDim, Num(2))),
     labels |-> IF fnt THEN SceneLabels(p, c.calc.grandTotal) ELSE <<>>,
     target |-> IF fnt THEN AutoCamera(maxDim, cam, tgt) ELSE tgt,
     ran |-> IF fnt THEN AllStages ELSE SceneStages]

UpdateScene(p, fnt, cam, tgt) ==
    SceneWith(p, fnt, cam, tgt, UpdateCalculations(p), Max3(p.length, p.width, p.height))

\* onInput: read the three dimension fields, then updateScene
OnInputParams(inp, p) ==
    [p EXCEPT !.length = OrZero(ParseFloat(inp.length)),
              !.width = OrZero(ParseFloat(inp.width)),
              !.height = OrZero(ParseFloat(inp.height))]

\* ------------------------------------------------------------------------
\* Initial state: the module has run to its end (renderMaterialInputs,
\* onInput and the first animate call) and the font has not arrived.  The
\* dimension fields of the page are taken to carry the defaults of params.
\* ------------------------------------------------------------------------
InitialMaterials ==
    <<[id |-> 1, name |-> "Insulation", price |-> Q(12, 1),
       wallCount |-> 4, floor |-> FALSE, ceiling |-> TRUE,
       pkgPrice |-> Q(60, 1), pkgArea |-> Q(5, 1), subtractArea |-> Q(5, 2)],
      [id |-> 2, name |-> "Paint", price |-> Q(11, 2),
       wallCount |-> 4, floor |-> FALSE, ceiling |-> TRUE,
       pkgPrice |-> Zero, pkgArea |-> Zero, subtractArea |-> Zero]>>

InitialParams ==
    [length |-> Q(5, 1), width |-> Q(4, 1), height |-> Q(3, 1),
     materials |-> InitialMaterials]

InitialInputs == [length |-> "5", width |-> "4", height |-> "3"]

InitialCamera == <<8000, 8000, 8000>>

\* Rooms typed into the dimension fields
RoomFields(l, w, h) == [length |-> l, width |-> w, height |-> h]
LayoutRooms ==
    {RoomFields("5", "4", "3"), RoomFields("50", "50", "2"),
     RoomFields("", "", ""), RoomFields("2", "2", "10"),
     RoomFields("5", "4", "0.3"), RoomFields("5", "4", "0.5")}
CameraRooms ==
    {RoomFields("5", "4", "3"), RoomFields("10", "10", "10"),
     RoomFields("2", "2", "2"), RoomFields("", "", "")}

\* Camera positions the visitor can drag the view to, in thousandths
OrbitPositions ==
    {<<0, 100, 0>>, <<3000, 0, 4000>>, <<0, 5000, 0>>, <<12000, 16000, 0>>,
     <<0, -5000, 0>>}

NoOp == [op |-> "init", idx |-> 0, raw |-> ""]

\* The page after construction with the dimension fields holding inp
StartWith(inp) ==
    \E p \in {OnInputParams(inp, InitialParams)} :
    \E s \in {UpdateScene(p, FALSE, InitialCamera, Null)} :
        /\ inputs = inp
        /\ params = p
        /\ calc = s.calc
        /\ breakdown = s.breakdown
        /\ outputs = s.outputs
        /\ room = s.room
        /\ gridSize = s.gridSize
        /\ labels = s.labels
        /\ font = FALSE
        /\ camera = InitialCamera
        /\ targetCameraPosition = s.target
        /\ now = ClockStart
        /\ lastOp = NoOp
        /\ lastRan = s.ran
        /\ nOps = 0
        /\ nTicks = 0

Init == StartWith(InitialInputs)

\* ------------------------------------------------------------------------
\* Event handlers
\* ------------------------------------------------------------------------
\* Variant of OnInput that puts the camera on the target it has just set
OnInput_MoveCamera(inp, p, op) ==
    \E p2 \in {OnInputParams(inp, p)} :
    \E s \in {UpdateScene(p2, font, camera, targetCameraPosition)} :
        /\ inputs' = inp
        /\ params' = p2
        /\ calc' = s.calc
        /\ breakdown' = s.breakdown
        /\ outputs' = s.outputs
        /\ room' = s.room
        /\ gridSize' = s.gridSize
        /\ labels' = s.labels
        /\ targetCameraPosition' = s.target
        /\ camera' = IF s.target # Null THEN s.target ELSE camera
        /\ lastRan' = s.ran
        /\ lastOp' = op
        /\ nOps' = nOps + 1
        /\ UNCHANGED <<font, nTicks>>

\* The tail shared by the handlers that end in onInput(): inp and p are the
\* dimension fields and the params as the handler left them.
OnInput(inp, p, op) ==
    \E p2 \in {OnInputParams(inp, p)} :
    \E s \in {UpdateScene(p2, font, camera, targetCameraPosition)} :
        /\ inputs' = inp
        /\ params' = p2
        /\ calc' = s.calc
        /\ breakdown' = s.breakdown
        /\ outputs' = s.outputs
        /\ room' = s.room
        /\ gridSize' = s.gridSize
        /\ labels' = s.labels
        /\ targetCameraPosition' = s.target
        /\ lastRan' = s.ran
        /\ lastOp' = op
        /\ nOps' = nOps + 1
        /\ UNCHANGED <<font, camera, nTicks>>

\* Variant of WithMaterial that writes to the first layer whatever the index
WithMaterial_First(p, i, mat) == [p EXCEPT !.materials[1] = mat]

\* The material at index i with one field replaced
WithMaterial(p, i, mat) == [p EXCEPT !.materials[i] = mat]

\* 'input' event of a dimension field
SetDimension ==
    /\ nOps < MaxOps
    /\ \E which \in {"length", "width", "height"}, raw \in DimRaw :
          /\ OnInput([inputs EXCEPT ![which] = raw], params,
                     [op |-> which, idx |-> 0, raw |-> raw])
          /\ UNCHANGED now

\* 'input' event of a name field: updateCalculations only
NameInput ==
    /\ nOps < MaxOps
    /\ \E i \in 1..Len(params.materials), v \in NameRaw :
          \E p \in {WithMaterial(params, i, [params.materials[i] EXCEPT !.name = v])} :
          \E c \in {UpdateCalculations(p)} :
              /\ params' = p
              /\ calc' = c.calc
              /\ breakdown' = c.breakdown
              /\ outputs' = c.outputs
              /\ lastRan' = {"calc"}
              /\ lastOp' = [op |-> "name", idx |-> i, raw |-> v]
              /\ nOps' = nOps + 1
              /\ UNCHANGED <<inputs, room, gridSize, labels, font, camera,
                             targetCameraPosition, now, nTicks>>

\* 'change' event of a unit-price field
PriceChange ==
    /\ nOps < MaxOps
    /\ \E i \in 1..Len(params.materials), raw \in PriceRaw :
          /\ OnInput(inputs,
                     WithMaterial(params, i,
                         [params.materials[i] EXCEPT !.price = OrZero(ParseFloat(raw))]),
                     [op |-> "price", idx |-> i, raw |-> raw])
          /\ UNCHANGED now

\* Variant of the removal that always drops the last element
Splice_Last(seq, i) == [j \in 1..(Len(seq) - 1) |-> seq[j]]

\* click on the remove button of card i: splice(index, 1)
Splice(seq, i) == [j \in 1..(Len(seq) - 1) |-> IF j < i THEN seq[j] ELSE seq[j + 1]]

RemoveClick ==
    /\ nOps < MaxOps
    /\ \E i \in 1..Len(params.materials) :
          /\ OnInput(inputs, [params EXCEPT !.materials = Splice(params.materials, i)],
                     [op |-> "remove", idx |-> i, raw |-> ""])
          /\ UNCHANGED now

\* Variant of updateFromPackage that multiplies instead of dividing
UpdateFromPackage_Product(mat, p, a) ==
    IF Gt(a, Zero) THEN [mat EXCEPT !.pkgPrice = p, !.pkgArea = a, !.price = Mul(p, a)]
    ELSE [mat EXCEPT !.pkgPrice = p, !.pkgArea = a]

\* updateFromPackage: p and a are the parsed values of the two package
\* fields.  The field that did not change holds the value the material
\* already has (each is rendered from the material and written back on every
\* event), so only the edited one is an input.
UpdateFromPackage(mat, p, a) ==
    IF Gt(a, Zero) THEN [mat EXCEPT !.pkgPrice = p, !.pkgArea = a, !.price = Div(p, a)]
    ELSE [mat EXCEPT !.pkgPrice = p, !.pkgArea = a]

\* 'input' event of a package field of card i: the fields are stored, and
\* only when the area is positive is the price derived and onInput called
PackageEvent(i, p, a, op) ==
    IF Gt(a, Zero)
    THEN /\ OnInput(inputs,
                    WithMaterial(params, i, UpdateFromPackage(params.materials[i], p, a)), op)
         /\ UNCHANGED now
    ELSE /\ params' = WithMaterial(params, i, UpdateFromPackage(params.materials[i], p, a))
         /\ lastRan' = {}
         /\ lastOp' = op
         /\ nOps' = nOps + 1
         /\ UNCHANGED <<inputs, calc, breakdown, outputs, room, gridSize, labels,
                        font, camera, targetCameraPosition, now, nTicks>>

PkgPriceInput ==
    /\ nOps < MaxOps
    /\ \E i \in 1..Len(params.materials), raw \in PkgPriceRaw :
          PackageEvent(i, OrZero(ParseFloat(raw)), OrZero(params.materials[i].pkgArea),
                       [op |-> "pkgPrice", idx |-> i, raw |-> raw])

PkgAreaInput ==
    /\ nOps < MaxOps
    /\ \E i \in 1..Len(params.materials), raw \in PkgAreaRaw :
          PackageEvent(i, OrZero(params.materials[i].pkgPrice), OrZero(ParseFloat(raw)),
                       [op |-> "pkgArea", idx |-> i, raw |-> raw])

\* Variant of the wall-count clamp without the upper limit
ClampWallCount_NoUpper(raw) == Trunc(Max2(Zero, OrZero(ParseInt(raw))))

\* Math.max(0, Math.min(4, parseInt(value) || 0))
ClampWallCount(raw) == Trunc(Max2(Zero, Min2(Num(4), OrZero(ParseInt(raw)))))

\* 'input' event of a wall-count field
WallInput ==
    /\ nOps < MaxOps
    /\ \E i \in 1..Len(params.materials), raw \in WallRaw :
          /\ OnInput(inputs,
                     WithMaterial(params, i,
                         [params.materials[i] EXCEPT !.wallCount = ClampWallCount(raw)]),
                     [op |-> "wallCount", idx |-> i, raw |-> raw])
          /\ UNCHANGED now

\* 'change' event of the floor checkbox: the box was toggled
FloorChange ==
    /\ nOps < MaxOps
    /\ \E i \in 1..Len(params.materials) :
          /\ OnInput(inputs,
                     WithMaterial(params, i,
                         [params.materials[i] EXCEPT !.floor = ~params.materials[i].floor]),
                     [op |-> "floor", idx |-> i, raw |-> ""])
          /\ UNCHANGED now

\* 'change' event of the ceiling checkbox
CeilingChange ==
    /\ nOps < MaxOps
    /\ \E i \in 1..Len(params.materials) :
          /\ OnInput(inputs,
                     WithMaterial(params, i,
                         [params.materials[i] EXCEPT !.ceiling = ~params.materials[i].ceiling]),
                     [op |-> "ceiling", idx |-> i, raw |-> ""])
          /\ UNCHANGED now

\* 'input' event of an exclusion field
SubInput ==
    /\ nOps < MaxOps
    /\ \E i \in 1..Len(params.materials), raw \in SubRaw :
          /\ OnInput(inputs,
                     WithMaterial(params, i,
                         [params.materials[i] EXCEPT !.subtractArea = OrZero(ParseFloat(raw))]),
                     [op |-> "subtractArea", idx |-> i, raw |-> raw])
          /\ UNCHANGED now

\* The layer pushed by the add button at clock reading t
NewLayer(t) ==
    [id |-> t, name |-> "New Layer", price |-> Zero,
     wallCount |-> 4, floor |-> TRUE, ceiling |-> TRUE,
     pkgPrice |-> Zero, pkgArea |-> Zero, subtractArea |-> Zero]

\* click on the add button; Date.now() reads t, not earlier than the last
\* reading
AddClick ==
    /\ nOps < MaxOps
    /\ Len(params.materials) < MaxLayers
    /\ \E t \in now..(ClockStart + MaxClock) :
          /\ OnInput(inputs, [params EXCEPT !.materials = Append(@, NewLayer(t))],
                     [op |-> "add", idx |-> Len(params.materials) + 1, raw |-> ""])
          /\ now' = t

\* The font loader's callback
FontLoaded ==
    /\ ~font
    /\ \E s \in {UpdateScene(params, TRUE, camera, targetCameraPosition)} :
           /\ font' = TRUE
           /\ calc' = s.calc
           /\ breakdown' = s.breakdown
           /\ outputs' = s.outputs
           /\ room' = s.room
           /\ gridSize' = s.gridSize
           /\ labels' = s.labels
           /\ targetCameraPosition' = s.target
           /\ lastRan' = s.ran
           /\ lastOp' = [op |-> "font", idx |-> 0, raw |-> ""]
           /\ UNCHANGED <<inputs, params, camera, now, nOps, nTicks>>

\* One animation frame that finds a target, the cap-th at the latest
AnimateFrame(cap) ==
    /\ targetCameraPosition # Null
    /\ nTicks < cap
    /\ \E pos \in {Lerp(camera, targetCameraPosition)} :
           /\ camera' = pos
           /\ targetCameraPosition' =
                 IF DistanceTo(pos, targetCameraPosition) < 100 THEN Null
                 ELSE targetCameraPosition
    /\ nTicks' = nTicks + 1
    /\ UNCHANGED <<inputs, params, calc, breakdown, outputs, room, gridSize, labels,
                   font, now, lastOp, lastRan, nOps>>

\* One animation frame
Animate == AnimateFrame(MaxTicks)

\* The visitor drags or zooms the view: OrbitControls writes camera.position
Orbit ==
    /\ nOps < MaxOps
    /\ \E pos \in OrbitPositions :
           /\ pos # camera
           /\ camera' = pos
    /\ lastOp' = [op |-> "orbit", idx |-> 0, raw |-> ""]
    /\ lastRan' = {}
    /\ nOps' = nOps + 1
    /\ UNCHANGED <<inputs, params, calc, breakdown, outputs, room, gridSize, labels,
                   font, targetCameraPosition, now, nTicks>>

Next ==
    \/ SetDimension
    \/ NameInput
    \/ PriceChange
    \/ RemoveClick
    \/ PkgPriceInput
    \/ PkgAreaInput
    \/ WallInput
    \/ FloorChange
    \/ CeilingChange
    \/ SubInput
    \/ AddClick
    \/ FontLoaded
    \/ Animate

Spec == Init /\ [][Next]_vars

\* The layout of rooms of many proportions: the page with a room already typed
\* into the dimension fields while the font was loading (each such edit runs
\* onInput, whose outcome depends on the fields only), then edited further.
InitLayout == \E r \in LayoutRooms : StartWith(r)

NextLayout ==
    \/ SetDimension
    \/ PriceChange
    \/ SubInput
    \/ FontLoaded

SpecLayout == InitLayout /\ [][NextLayout]_vars

\* The camera: rooms small enough for the camera arithmetic, with the view
\* dragged by the visitor and moved by the animation loop.
InitCam == \E r \in CameraRooms : StartWith(r)

NextCam ==
    \/ SetDimension
    \/ NameInput
    \/ FloorChange
    \/ FontLoaded
    \/ Orbit
    \/ Animate

SpecCam == InitCam /\ [][NextCam]_vars

\* The camera left to the animation loop: the visitor edits and drags before
\* the first frame that finds a target, and leaves the page alone from then
\* on.  requestAnimationFrame calls animate again after every frame, so a
\* frame that can run does run.
Quiet == nTicks = 0

\* The animation frames of a glide that nothing interrupts
Glide == AnimateFrame(MaxGlide)

NextGlide ==
    \/ Quiet /\ FontLoaded
    \/ Quiet /\ Orbit
    \/ Glide

SpecGlide == InitCam /\ [][NextGlide]_vars /\ WF_vars(Glide)

\* ------------------------------------------------------------------------
\* Properties
\* ------------------------------------------------------------------------
Layers == 1..Len(params.materials)
Layer(i) == params.materials[i]
AfterEvent == nOps > 0

\* Every stored dimension, price and exclusion is a valid (non-negative)
\* value and every wall count is one of 0..4
ValidModel ==
    /\ Geq(params.length, Zero) /\ Geq(params.width, Zero) /\ Geq(params.height, Zero)
    /\ \A i \in Layers :
          /\ Geq(Layer(i).price, Zero)
          /\ Geq(Layer(i).subtractArea, Zero)
          /\ Layer(i).wallCount \in 0..4

\* C1: whenever the dimensions, unit prices and exclusions held by the model
\* are non-negative and the wall counts are in 0..4, the recomputed
\* grandTotal is >= 0 and every breakdown entry has area >= 0.
C1_NonNegativeTotals ==
    ValidModel =>
        /\ Geq(calc.grandTotal, Zero)
        /\ \A i \in 1..Len(breakdown) : Geq(breakdown[i].area, Zero)

\* A valid model after an exclusion edit, with a positive total
C1_Witness ==
    /\ AfterEvent /\ ValidModel
    /\ lastOp.op = "subtractArea" /\ lastOp.raw = "100"
    /\ Gt(calc.grandTotal, Zero)

\* The cost formula of the specification, written from the dimensions
RawArea(mat) ==
    LET wallArea == Add(Mul(Mul(Num(2), params.length), params.height),
                        Mul(Mul(Num(2), params.width), params.height))
        avg == Div(wallArea, Num(4))
        area == Mul(params.length, params.width)
    IN  Add(Add(Mul(Num(mat.wallCount), avg), IF mat.floor THEN area ELSE Zero),
            IF mat.ceiling THEN area ELSE Zero)

EffectiveArea(mat) == Max2(Zero, Sub(RawArea(mat), mat.subtractArea))

RECURSIVE SumCosts(_)
SumCosts(items) ==
    IF items = <<>> THEN Zero
    ELSE Add(SumCosts(SubSeq(items, 1, Len(items) - 1)), items[Len(items)].cost)

ExampleLayer(mat) ==
    /\ mat.wallCount = 4 /\ ~mat.floor /\ mat.ceiling
    /\ mat.subtractArea = Q(5, 2) /\ mat.price = Q(12, 1)

ExampleRoom ==
    params.length = Q(5, 1) /\ params.width = Q(4, 1) /\ params.height = Q(3, 1)

\* C2: every layer's breakdown entry has area
\* max(0, wallCount*avgWallArea + floor? + ceiling? - exclusion) and cost
\* area*unitPrice, grandTotal is the sum of the costs in list order, and
\* the example layer in the 5x4x3 room has area 71.5 and cost 858.
C2_CostFormula ==
    /\ Len(breakdown) = Len(params.materials)
    /\ \A i \in Layers :
          /\ breakdown[i].area = EffectiveArea(Layer(i))
          /\ breakdown[i].cost = Mul(EffectiveArea(Layer(i)), Layer(i).price)
          /\ (ExampleRoom /\ ExampleLayer(Layer(i))) =>
                (breakdown[i].area = Q(143, 2) /\ breakdown[i].cost = Q(858, 1))
    /\ calc.grandTotal = SumCosts(breakdown)

\* The example layer in the example room, after an edit of another layer
C2_Witness ==
    /\ AfterEvent /\ ExampleRoom
    /\ \E i \in Layers : ExampleLayer(Layer(i)) /\ breakdown[i].cost = Q(858, 1)
    /\ \E j \in Layers : Layer(j).price = Q(2, 1) /\ breakdown[j].cost = Q(148, 1)
    /\ calc.grandTotal = Q(1006, 1)

\* C3: the derived areas are wallArea = 2*length*height + 2*width*height,
\* floorArea = ceilingArea = length*width, avgWallArea = wallArea/4 with
\* 4*avgWallArea = wallArea; 5x4x3 gives 54, 20, 20 and 13.5.
C3_DerivedAreas ==
    /\ calc.totalWallArea = Add(Mul(Mul(Num(2), params.length), params.height),
                                Mul(Mul(Num(2), params.width), params.height))
    /\ calc.floorArea = Mul(params.length, params.width)
    /\ calc.ceilingArea = calc.floorArea
    /\ Mul(Num(4), calc.avgWallArea) = calc.totalWallArea
    /\ ExampleRoom =>
          /\ calc.totalWallArea = Q(54, 1)
          /\ calc.floorArea = Q(20, 1)
          /\ calc.ceilingArea = Q(20, 1)
          /\ calc.avgWallArea = Q(27, 2)

\* A room changed by a dimension edit, with a non-zero wall area
C3_Witness ==
    /\ AfterEvent /\ lastOp.op = "height" /\ lastOp.raw = "2"
    /\ calc.totalWallArea = Q(36, 1) /\ calc.avgWallArea = Q(9, 1)

\* The grand total without the contribution of layer i
RECURSIVE SumCostsExcept(_, _)
SumCostsExcept(items, i) ==
    IF items = <<>> THEN Zero
    ELSE Add(SumCostsExcept(SubSeq(items, 1, Len(items) - 1), i),
             IF Len(items) = i THEN Zero ELSE items[Len(items)].cost)

\* C4: a layer whose exclusion is >= its raw covered area has effective
\* area 0 and cost 0, and the grand total is exactly the total of the
\* other layers.
C4_ExclusionClamp ==
    \A i \in Layers :
        Geq(OrZero(Layer(i).subtractArea), RawArea(Layer(i))) =>
            /\ breakdown[i].area = Zero
            /\ breakdown[i].cost = Zero
            /\ calc.grandTotal = SumCostsExcept(breakdown, i)

\* A layer with exclusion 100 over a raw area of 74, next to a layer that
\* still costs something
C4_Witness ==
    /\ AfterEvent
    /\ \E i \in Layers :
          /\ Layer(i).subtractArea = Q(100, 1)
          /\ Gt(RawArea(Layer(i)), Zero)
          /\ Lt(RawArea(Layer(i)), Q(100, 1))
          /\ Layer(i).price = Q(12, 1)
          /\ breakdown[i].cost = Zero
    /\ Gt(calc.grandTotal, Zero)

LastLayer == Layer(lastOp.idx)
PackageOps == {"pkgPrice", "pkgArea"}

\* The unit price of every layer with packageArea > 0 is the package-derived
\* price, in every reachable state
C5_AlwaysPackagePrice ==
    \A i \in Layers :
        Gt(Layer(i).pkgArea, Zero) =>
            Layer(i).price = Div(Layer(i).pkgPrice, Layer(i).pkgArea)

\* C5 (amended): after a package-field edit that leaves packageArea > 0 the
\* layer's unitPrice is packageUnitPrice / packageArea (60 and 5 give 12);
\* after a direct edit of unitPrice the layer carries the entered price,
\* whatever its package fields are.
C5_PackagePrice ==
    /\ (lastOp.op \in PackageOps /\ Gt(LastLayer.pkgArea, Zero)) =>
          /\ LastLayer.price = Div(LastLayer.pkgPrice, LastLayer.pkgArea)
          /\ (LastLayer.pkgPrice = Q(60, 1) /\ LastLayer.pkgArea = Q(5, 1)) =>
                LastLayer.price = Q(12, 1)
    /\ lastOp.op = "price" =>
          LastLayer.price = (IF lastOp.raw = "2" THEN Q(2, 1)
                             ELSE IF lastOp.raw = "-1" THEN Q(-1, 1) ELSE Zero)

\* A package-area edit has put the price of the first layer back to 60/5
\* after a direct price edit
C5_Witness ==
    /\ nOps = 2 /\ lastOp.op = "pkgArea" /\ lastOp.raw = "5" /\ lastOp.idx = 1
    /\ LastLayer.pkgPrice = Q(60, 1)
    /\ LastLayer.price = Q(12, 1)
    /\ breakdown[1].cost = Q(858, 1)

\* C6: every stored dimension, unit price, package price, package area and
\* exclusion is >= 0 (inputs that are not valid non-negative numbers are
\* stored as 0).
C6_StoredNonNegative ==
    /\ Geq(params.length, Zero) /\ Geq(params.width, Zero) /\ Geq(params.height, Zero)
    /\ \A i \in Layers :
          /\ Geq(Layer(i).price, Zero)
          /\ Geq(Layer(i).pkgPrice, Zero)
          /\ Geq(Layer(i).pkgArea, Zero)
          /\ Geq(Layer(i).subtractArea, Zero)

\* C7: every layer's wallCount is one of 0, 1, 2, 3, 4, and a wall-count
\* edit stores 0 for a missing or negative value, the integer part of a
\* fractional one and 4 for a value above 4.
C7_WallCountRange ==
    /\ \A i \in Layers : Layer(i).wallCount \in {0, 1, 2, 3, 4}
    /\ lastOp.op = "wallCount" =>
          LastLayer.wallCount = (CASE lastOp.raw = "7" -> 4
                                   [] lastOp.raw = "2.5" -> 2
                                   [] OTHER -> 0)

\* A wall-count edit with the value 7 on a freshly added layer
C7_Witness ==
    /\ lastOp.op = "wallCount" /\ lastOp.raw = "7"
    /\ LastLayer.id >= ClockStart
    /\ LastLayer.wallCount = 4

\* One step of the layer list: what each kind of event does to the order
C8_Step ==
    LET old == params.materials
        new == params'.materials
        k == lastOp'.idx
    IN  /\ Len(breakdown') = Len(new)
        /\ \A i \in 1..Len(new) :
              /\ breakdown'[i].layerId = new[i].id
              /\ breakdown'[i].sub[1] = new[i].wallCount
        /\ IF nOps' = nOps THEN new = old
           ELSE IF lastOp'.op = "add"
                THEN /\ Len(new) = Len(old) + 1
                     /\ \A j \in 1..Len(old) : new[j] = old[j]
           ELSE IF lastOp'.op = "remove"
                THEN /\ Len(new) = Len(old) - 1
                     /\ \A j \in 1..Len(new) : new[j] = old[IF j < k THEN j ELSE j + 1]
           ELSE IF lastOp'.op \in {"length", "width", "height"}
                THEN new = old
           ELSE /\ Len(new) = Len(old)
                /\ new[k].id = old[k].id
                /\ \A j \in 1..Len(old) : j # k => new[j] = old[j]

\* C8: after every event the breakdown has one entry per layer in list
\* order; addLayer appends at the end, updateLayer keeps every layer in its
\* place, removeLayer deletes the layer it was invoked for and keeps the
\* others in their relative order.
C8_BreakdownOrder == [][C8_Step]_vars

\* The first of three layers has been removed, a freshly added one is last
C8_Witness ==
    /\ nOps = 2 /\ lastOp.op = "remove" /\ lastOp.idx = 1
    /\ Len(params.materials) = 2 /\ Len(breakdown) = 2
    /\ Layer(1).id = 2 /\ Layer(2).id >= ClockStart
    /\ breakdown[1].layerId = 2 /\ breakdown[2].layerId = Layer(2).id

\* C9: the ids of the layers in the list are pairwise distinct
C9_UniqueIds ==
    \A i, j \in Layers : i # j => Layer(i).id # Layer(j).id

ClampedTextSize ==
    Max2(Q(15, 100),
         Min2(Mul(Q(3, 100), Max3(params.length, params.width, params.height)),
              Mul(Q(15, 100), params.height)))

ClampedGap == Mul(Q(12, 10), ClampedTextSize)

FlatRoom ==
    /\ params.length = Num(50)
    /\ params.width = Num(50)
    /\ params.height = Num(2)

\* C11: whenever labels are laid out, the text size of the first six labels
\* is max(0.15, min(0.03 * max(length, width, height), 0.15 * height)), the
\* gap that lifts the floor label off the floor is 1.2 times that size, the
\* size is never below 0.15, and the room 50 x 50 x 2 has text size 0.3.
C11_TextSize ==
    font =>
        /\ Len(labels) = 7
        /\ \A i \in 1..6 : labels[i].size = ClampedTextSize
        /\ labels[4].position[2] = Mul(Q(12, 10), labels[4].size)
        /\ Geq(labels[1].size, Q(15, 100))
        /\ FlatRoom => labels[1].size = Q(3, 10)

C11_Witness ==
    /\ font
    /\ FlatRoom
    /\ lastOp.op = "font"
    /\ labels[1].size = Q(3, 10)
    /\ labels[4].position = <<Zero, Q(36, 100), Zero>>

\* C12: with the font available the label set is exactly the seven catalog
\* labels, never more, at the catalog positions for the current room, the
\* first six of text size and the total-cost label 1.2 times as large.
C12_LabelCatalog ==
    font =>
        /\ Len(labels) = 7
        /\ [i \in 1..7 |-> labels[i].kind]
              = <<"length", "width", "height", "floor", "ceiling", "walls", "total">>
        /\ [i \in 1..7 |-> labels[i].position]
              = <<<<Zero, Zero, Add(Div(params.width, Num(2)), ClampedGap)>>,
                  <<Add(Div(params.length, Num(2)), ClampedGap), Zero, Zero>>,
                  <<Sub(Sub(Zero, Div(params.length, Num(2))), ClampedGap),
                    Div(params.height, Num(2)),
                    Sub(Zero, Div(params.width, Num(2)))>>,
                  <<Zero, ClampedGap, Zero>>,
                  <<Zero, Sub(params.height, ClampedGap), Zero>>,
                  <<Zero, Div(params.height, Num(2)),
                    Add(Sub(Zero, Div(params.width, Num(2))), ClampedGap)>>,
                  <<Zero, Add(params.height, Mul(Num(2), ClampedTextSize)), Zero>> >>
        /\ [i \in 1..7 |-> labels[i].size]
              = [i \in 1..7 |-> IF i = 7 THEN Mul(Q(12, 10), ClampedTextSize)
                                 ELSE ClampedTextSize]

\* Labels rebuilt by a second recompute after the font arrived
C12_Witness ==
    /\ font
    /\ nOps = 2
    /\ lastOp.op \in {"length", "width", "height"}
    /\ Len(labels) = 7
    /\ labels[7].position[2] # Add(InitialParams.height, Mul(Num(2), Q(15, 100)))

\* ------------------------------------------------------------------------
\* Font gate
\* ------------------------------------------------------------------------
LabelValues == [i \in 1..3 |-> labels[i].value]

C13_Step ==
    /\ ~font' => labels' = <<>>
    /\ font => font'
    /\ (~font /\ font') =>
          /\ lastOp'.op = "font"
          /\ lastRan' = AllStages
          /\ params' = params
          /\ Len(labels') = 7
          /\ LabelValues' = <<params.length, params.width, params.height>>
          /\ labels'[7].value = FormatCurrency0(calc.grandTotal)

\* C13: while the font is missing the label set is empty after every
\* operation; the step in which the font arrives runs every stage of the
\* recompute and leaves the seven labels of the current room, and the font
\* never arrives a second time.
C13_FontGate == [](~font => labels = <<>>) /\ [][C13_Step]_vars

\* The font arrived after the room had been edited without it
C13_Witness ==
    /\ font
    /\ lastOp.op = "font"
    /\ nOps = 2
    /\ params.length # InitialParams.length
    /\ Len(labels) = 7
    /\ labels[1].value = params.length

\* ------------------------------------------------------------------------
\* Camera controller
\* ------------------------------------------------------------------------
Stable == targetCameraPosition = Null
Retargeting == targetCameraPosition # Null

\* A step of a handler that ran the camera block of updateScene
RecomputeStep == "camera" \in lastRan' /\ (nOps' = nOps + 1 \/ font' # font)

\* 1.5 * max(length, width, height) of the room the step leaves
FitDistanceAfter == Mul(Q(3, 2), Max3(params'.length, params'.width, params'.height))

\* Distance of the camera from the origin, in thousandths
CameraDistance ==
    ISqrt(camera[1] * camera[1] + camera[2] * camera[2] + camera[3] * camera[3])

TooNear == Lt(Q(CameraDistance, 1000), Mul(Q(4, 10), FitDistanceAfter))
TooFar == Gt(Q(CameraDistance, 1000), Mul(Q(25, 10), FitDistanceAfter))

\* normalize(cameraPos) * fitDistance, in thousandths
AlongCamera ==
    [i \in 1..3 |->
        RoundInt(Mul(Q(camera[i], IF CameraDistance = 0 THEN 1 ELSE CameraDistance),
                     FitDistanceAfter), 1000)]

MaxInt(a, b) == IF a < b THEN b ELSE a

\* The same with y raised to max(y, 0.3 * fitDistance)
RaisedTarget ==
    <<AlongCamera[1],
      MaxInt(AlongCamera[2], RoundInt(Mul(Q(3, 10), FitDistanceAfter), 1000)),
      AlongCamera[3]>>

\* A step of a handler that ran updateScene
SceneStep == "geometry" \in lastRan' /\ (nOps' = nOps + 1 \/ font' # font)

C14_Decision ==
    /\ (TooNear \/ TooFar) => targetCameraPosition' = RaisedTarget
    /\ FitDistanceAfter = Num(15) =>
          /\ (CameraDistance = 20000 /\ Stable) => Stable'
          /\ CameraDistance = 5000 =>
                /\ Retargeting'
                /\ targetCameraPosition'[2] >= 4500

\* C14: every recompute that finds the camera nearer to the origin than 0.4 *
\* fitDistance or farther than 2.5 * fitDistance sets the target to
\* normalize(cameraPos) * fitDistance with y raised to at least 0.3 *
\* fitDistance; with maxDim 10 a camera at distance 20 stays Stable and a
\* camera at distance 5 gets a target with y >= 4.5.
C14_EveryRecompute == [][SceneStep => C14_Decision]_vars

\* The decision rule of C14 in the recomputes that reach the camera block,
\* which are those made with the font loaded
C14_RetargetDecision == [][RecomputeStep => C14_Decision]_vars

\* maxDim 10, camera dragged to distance 5 at floor level, then a recompute
C14_Witness ==
    /\ font
    /\ lastOp.op \in {"length", "width", "height", "floor"}
    /\ Max3(params.length, params.width, params.height) = Num(10)
    /\ camera = <<3000, 0, 4000>>
    /\ targetCameraPosition = <<9000, 4500, 12000>>

\* C15: a recompute that finds the camera distance within [0.4 *
\* fitDistance, 2.5 * fitDistance] leaves the controller Stable, with any
\* target left pending by an earlier recompute cleared.
C15_InBandClears == [][(RecomputeStep /\ ~TooNear /\ ~TooFar) => Stable']_vars

\* A step of animate that found a target
TickStep == nTicks' = nTicks + 1

\* Square of the distance between two positions, in millionths
SquaredDistance(a, b) ==
    (a[1] - b[1]) * (a[1] - b[1]) + (a[2] - b[2]) * (a[2] - b[2])
        + (a[3] - b[3]) * (a[3] - b[3])

\* x + 0.05 * (t - x), to the nearest thousandth
TowardTarget(x, t) == x + RoundInt(Q(t - x, 20), 1)

C16_Step ==
    TickStep =>
        /\ Retargeting
        /\ camera' = [i \in 1..3 |-> TowardTarget(camera[i], targetCameraPosition[i])]
        /\ targetCameraPosition' =
              IF SquaredDistance(camera', targetCameraPosition) < 100 * 100 THEN Null
              ELSE targetCameraPosition

\* C16: a tick while Retargeting moves the camera to cameraPos + 0.05 *
\* (target - cameraPos); if the camera is then nearer than 0.1 to the
\* target the target is cleared, otherwise the same target stays pending.
C16_Tick == [][C16_Step]_vars

\* A tick from (0, 0.1, 0) toward the origin ends within 0.1 of it: the
\* target is cleared
C16_Witness ==
    /\ nTicks = 1
    /\ Stable
    /\ lastOp.op # "orbit"
    /\ camera = <<0, 95, 0>>

\* x lies between a and b
Between(x, a, b) == (a <= x /\ x <= b) \/ (b <= x /\ x <= a)

C17_Step ==
    /\ (RecomputeStep /\ Retargeting /\ (TooNear \/ TooFar)) =>
          targetCameraPosition' = RaisedTarget
    /\ TickStep =>
          /\ \A i \in 1..3 : Between(camera'[i], camera[i], targetCameraPosition[i])
          /\ SquaredDistance(camera', targetCameraPosition)
                < SquaredDistance(camera, targetCameraPosition)

\* C17: the target is one position or none in every state; a recompute that
\* decides to retarget while a target is pending puts the new target in its
\* place, and every tick moves the camera toward the target pending then.
C17_SingleTarget ==
    /\ [](Stable \/ (Len(targetCameraPosition) = 3
                       /\ \A i \in 1..3 : targetCameraPosition[i] \in Int))
    /\ [][C17_Step]_vars

\* Room 2 x 2 x 2: the target set from (8, 8, 8) was replaced by the one for
\* the camera dragged to (12, 16, 0), and a tick has moved toward the new one
C17_Witness ==
    /\ nTicks = 1
    /\ lastOp.op \in {"length", "width", "height", "floor"}
    /\ targetCameraPosition = <<1800, 2400, 0>>
    /\ camera = <<11490, 15320, 0>>

\* The steps in which the controller leaves Stable
StartsRetargeting == Stable /\ Retargeting'

\* Operations that change a dimension or a layer
ModelChangeOps ==
    {"length", "width", "height", "add", "remove", "name", "price", "pkgPrice",
     "pkgArea", "wallCount", "floor", "ceiling", "subtractArea"}

\* C18: the controller leaves Stable only in the recompute of a dimension or
\* layer change, and only when the camera distance is outside [0.4 *
\* fitDistance, 2.5 * fitDistance]; never in an orbit or a tick.
C18_OnlyModelChanges ==
    [][StartsRetargeting =>
          /\ nOps' = nOps + 1
          /\ lastOp'.op \in ModelChangeOps
          /\ TooNear \/ TooFar]_vars

\* C18 (amended): the controller leaves Stable only in a step that runs the
\* camera block of updateScene, which is the recompute of a dimension or
\* layer change or the one made when the font arrives, and only when the
\* camera distance is outside the band; never in an orbit or a tick.
C18_OnlyRecomputes ==
    [][StartsRetargeting =>
          /\ RecomputeStep
          /\ ~TickStep
          /\ lastOp'.op \in (ModelChangeOps \ {"name"}) \cup {"font"}
          /\ TooNear \/ TooFar]_vars

\* The camera was dragged out of band while Stable and no target appeared
\* until the font arrived; that recompute started the retargeting
C18_Witness ==
    /\ lastOp.op = "font"
    /\ nOps = 1
    /\ nTicks = 0
    /\ camera = <<3000, 0, 4000>>
    /\ Max3(params.length, params.width, params.height) = Num(10)
    /\ Retargeting

\* ------------------------------------------------------------------------
\* Idempotence and the empty room
\* ------------------------------------------------------------------------
\* A step in which an input event re-ran updateScene on fields, layers, font
\* and camera that are as the previous recompute found them
RepeatedRecompute ==
    /\ SceneStep
    /\ nOps' = nOps + 1
    /\ inputs' = inputs
    /\ params'.materials = params.materials
    /\ font' = font
    /\ camera' = camera

C19_Step ==
    RepeatedRecompute =>
        /\ params' = params
        /\ calc' = calc
        /\ breakdown' = breakdown
        /\ outputs' = outputs
        /\ room' = room
        /\ gridSize' = gridSize
        /\ labels' = labels
        /\ targetCameraPosition' = targetCameraPosition
        /\ lastRan' = lastRan

\* C19: a recompute that follows another with the same fields, layers, font
\* readiness and camera position yields the same areas, breakdown,
\* grandTotal, labels (hence text size and gap) and camera target, and
\* leaves the dimensions and layers as they were.
C19_Idempotent == [][C19_Step]_vars

\* The room 50 x 50 x 2 recomputed with the font loaded by typing 2 into
\* the height field that already held 2
C19_Witness ==
    /\ font
    /\ nOps = 1
    /\ lastOp.op = "height" /\ lastOp.raw = "2"
    /\ FlatRoom
    /\ Len(labels) = 7
    /\ targetCameraPosition = <<43303, 43303, 43303>>

ZeroRoom ==
    /\ params.length = Zero
    /\ params.width = Zero
    /\ params.height = Zero

\* C20: in the room with length = width = height = 0, whatever the layers,
\* the wall, floor and ceiling areas are 0, every layer costs 0, grandTotal
\* is 0, the text size is exactly 0.15 and no value is NaN.
C20_ZeroRoom ==
    ZeroRoom =>
        /\ calc.totalWallArea = Zero
        /\ calc.floorArea = Zero
        /\ calc.ceilingArea = Zero
        /\ \A i \in 1..Len(breakdown) :
              /\ breakdown[i].cost = Zero
              /\ ~IsNaN(breakdown[i].area)
        /\ calc.grandTotal = Zero
        /\ font => \A i \in 1..6 : labels[i].size = Q(15, 100)

\* The same for layers whose stored exclusion is not negative
C20_ZeroRoomValidLayers ==
    (ZeroRoom /\ \A i \in Layers : Geq(Layer(i).subtractArea, Zero)) =>
        /\ calc.totalWallArea = Zero
        /\ calc.floorArea = Zero
        /\ calc.ceilingArea = Zero
        /\ \A i \in 1..Len(breakdown) : breakdown[i].cost = Zero
        /\ calc.grandTotal = Zero
        /\ font => \A i \in 1..6 : labels[i].size = Q(15, 100)

\* ------------------------------------------------------------------------
\* The glide to the target
\* ------------------------------------------------------------------------
\* Distance from the camera to the pending target, in thousandths
TargetDistance == ISqrt(SquaredDistance(camera, targetCameraPosition))

\* 0.95 times the distance, give or take the rounding of the three
\* coordinates and of the square root
Shrinks(before, after) ==
    /\ 20 * after <= 19 * before + 60
    /\ 20 * after >= 19 * before - 60

C21_Step ==
    TickStep =>
        /\ Retargeting' => Shrinks(TargetDistance, TargetDistance')
        /\ Stable' => SquaredDistance(camera', targetCameraPosition) < 100 * 100

\* C21: while the page is left alone, the frames of the animation loop
\* bring every Retargeting state to Stable: each frame shrinks the distance
\* to the target by the factor 0.95, and the frame that ends nearer than
\* 0.1 to the target clears it.
C21_ReachesTarget == (Retargeting ~> Stable) /\ [][C21_Step]_vars

\* The glide from (12, 16, 0) to the target (1.8, 2.4, 0) of the room
\* 2 x 2 x 2 has taken 101 frames and reached it
C21_Witness ==
    /\ nTicks = 101
    /\ Stable
    /\ SquaredDistance(camera, <<1800, 2400, 0>>) < 100 * 100

\* ------------------------------------------------------------------------
\* Camera fit and the font
\* ------------------------------------------------------------------------
\* C22: every recompute made for a dimension or layer change evaluates the
\* camera fit, with or without the font: the camera block runs, and a camera
\* found out of band gets a target; a missing font holds back the labels
\* only.
C22_FitWithoutFont ==
    [][(SceneStep /\ nOps' = nOps + 1) =>
          /\ "camera" \in lastRan'
          /\ (TooNear \/ TooFar) => Retargeting']_vars

\* ------------------------------------------------------------------------
\* Floor and ceiling labels
\* ------------------------------------------------------------------------
\* The floor-area label stands strictly below the ceiling-area label
FloorBelowCeiling == Lt(labels[4].position[2], labels[5].position[2])

TargetRadiusAfter ==
    Q(ISqrt(SquaredDistance(targetCameraPosition', Origin)), 1000)

\* C24: a target set by a recompute for a room of positive size lies at a
\* distance from the origin inside [0.4 * fitDistance, 2.5 * fitDistance],
\* wherever the camera is, below the floor plane included.
C24_TargetInBand ==
    [][(RecomputeStep /\ (TooNear \/ TooFar) /\ Gt(FitDistanceAfter, Zero)) =>
          /\ Geq(TargetRadiusAfter, Mul(Q(4, 10), FitDistanceAfter))
          /\ ~Gt(TargetRadiusAfter, Mul(Q(25, 10), FitDistanceAfter))]_vars

\* ------------------------------------------------------------------------
\* Frame conditions
\* ------------------------------------------------------------------------
\* A step of the OrbitControls drag
OrbitStep == nOps' = nOps + 1 /\ lastOp'.op = "orbit"

C25_Step ==
    /\ camera' # camera => (OrbitStep \/ (TickStep /\ Retargeting))
    /\ (SceneStep \/ (nOps' = nOps + 1 /\ ~OrbitStep)) => camera' = camera
    /\ Stable => (camera' = camera \/ OrbitStep)

\* C25: the camera position changes only in an animation frame that finds a
\* target or in a drag of the visitor; a recompute, which may set or replace
\* the target, leaves the position as it is, and so does a frame that finds
\* no target.
C25_CameraOwnership == [][C25_Step]_vars

\* A recompute has just set a target from the dragged camera, which is
\* still where the visitor left it
C25_Witness ==
    /\ font
    /\ nOps = 2
    /\ nTicks = 0
    /\ lastOp.op \in {"length", "width", "height", "floor"}
    /\ camera = <<0, 5000, 0>>
    /\ targetCameraPosition = <<0, 15000, 0>>

\* A step of the handler of a name field
NameStep == nOps' = nOps + 1 /\ lastOp'.op = "name"

\* The layer without its name
Unnamed(mat) == [mat EXCEPT !.name = ""]

C26_Step ==
    NameStep =>
        /\ Len(params'.materials) = Len(params.materials)
        /\ \A i \in Layers : Unnamed(params'.materials[i]) = Unnamed(Layer(i))
        /\ \A i \in Layers \ {lastOp'.idx} : params'.materials[i] = Layer(i)
        /\ <<params'.length, params'.width, params'.height>>
              = <<params.length, params.width, params.height>>
        /\ inputs' = inputs
        /\ calc' = calc
        /\ Len(breakdown') = Len(breakdown)
        /\ \A i \in 1..Len(breakdown) :
              /\ breakdown'[i].area = breakdown[i].area
              /\ breakdown'[i].cost = breakdown[i].cost
        /\ labels' = labels
        /\ <<room', gridSize'>> = <<room, gridSize>>
        /\ <<camera', targetCameraPosition'>> = <<camera, targetCameraPosition>>

\* C26: an edit of a layer's name changes that name and nothing else: the
\* other fields of every layer, the dimensions, the derived areas, every
\* breakdown area and cost, grandTotal, the labels and the camera and its
\* target stay as they were.
C26_NameOnly == [][C26_Step]_vars

\* The second layer's name cleared after a dimension edit, font loaded
C26_Witness ==
    /\ font
    /\ nOps = 2
    /\ lastOp = [op |-> "name", idx |-> 2, raw |-> ""]
    /\ params.length # InitialParams.length
    /\ params.materials[2].name = ""
    /\ breakdown[2].name = "Layer"
    /\ Len(labels) = 7

\* ------------------------------------------------------------------------
\* The two cost engines
\* ------------------------------------------------------------------------
NoExclusions == \A i \in Layers : OrZero(Layer(i).subtractArea) = Zero

\* Per-layer costs and grandTotal of the current room and layers as the
\* engine of main.js computes them
MainJsCosts ==
    [i \in 1..Len(params.materials) |->
        MainJsUpdateCalculations(params).breakdown[i].cost]
MainJsGrandTotal == MainJsUpdateCalculations(params).calc.grandTotal

EnginesAgree ==
    /\ [i \in 1..Len(breakdown) |-> breakdown[i].cost] = MainJsCosts
    /\ calc.grandTotal = MainJsGrandTotal

\* C27: for every room and every layer list without exclusions, the
\* per-layer costs and grandTotal of the exclusion-aware engine equal those
\* of the engine of main.js.
C27_EnginesAgree == NoExclusions => EnginesAgree

\* The same for rooms whose stored dimensions are not negative
C27_EnginesAgreeValidRooms ==
    (NoExclusions /\ Geq(params.length, Zero) /\ Geq(params.width, Zero)
        /\ Geq(params.height, Zero)) => EnginesAgree

====
